---- MODULE Spec2Model ----
(***************************************************************************)
(* Model of flowistry's dependency query,                                  *)
(* crates/flowistry/src/infoflow/dependencies.rs: compute_dependencies     *)
(* and the DepVisitor it drives over the reachable points of a MIR body.   *)
(*                                                                         *)
(* A Location is <<block, statement_index>>; a block's terminator is at    *)
(* statement_index = number of statements.  A LocationSet is a set of      *)
(* Locations, a PlaceSet a set of Places.  An Option<Location> is the      *)
(* empty set (None) or a singleton (Some).  An output is the pair          *)
(* <<LocationSet, PlaceSet>> of the source.                                *)
(***************************************************************************)
EXTENDS Integers, Sequences, FiniteSets

VARIABLES body, flow, targets, direction, target_deps, outputs, todo, pc

vars == <<body, flow, targets, direction, target_deps, outputs, todo, pc>>

\* ------------------------------------------------------------ bounds
\* Longest list of targets of a query.
MaxTargets == 2
\* Most rows of a FlowState (over all points and places) that are non-empty.
MaxRows == 2

\* ------------------------------------------------------------ domains
START_BLOCK == 0

Directions == {"Forward", "Backward", "Both"}

\* The place domain; <<"a", "b">> is its index order.
Places == {"a", "b"}
PlaceOrder == <<"a", "b">>

\* The key of the state handed to visit_block_start for START_BLOCK.
EntryState == <<>>

\* ------------------------------------------------------------ bodies
Identity == [p \in Places |-> {p}]

\* fn(a) { b = a; return b }: one block, one statement, a Return.
AssignBody ==
  [ args |-> {"a"},
    blocks |-> [bb \in {0} |->
      [ statements |-> << [mutated |-> {"b"}] >>,
        terminator |-> [kind |-> "Return", discr |-> {}, mutated |-> {},
                        successors |-> <<>>] ]],
    conflicts |-> Identity,
    reachable_values |-> Identity ]

\* fn(a) { while a {} }: bb0 switches on a, back to bb0 or on to bb1, which
\* returns.  b holds a pointer to a: a is reachable through b.
SwitchBody ==
  [ args |-> {"a"},
    blocks |-> [bb \in {0, 1} |->
      IF bb = 0
      THEN [ statements |-> <<>>,
             terminator |-> [kind |-> "SwitchInt", discr |-> {"a"},
                             mutated |-> {}, successors |-> <<0, 1>>] ]
      ELSE [ statements |-> <<>>,
             terminator |-> [kind |-> "Return", discr |-> {},
                             mutated |-> {}, successors |-> <<>>] ]],
    conflicts |-> Identity,
    reachable_values |-> [p \in Places |-> IF p = "b" THEN {"a", "b"} ELSE {p}] ]

\* fn(a) { loop { b = call(a) } }: bb0 calls, writes b and returns to bb0;
\* bb1, a return, is unreachable.  a and b overlap.
CallBody ==
  [ args |-> {"a"},
    blocks |-> [bb \in {0, 1} |->
      IF bb = 0
      THEN [ statements |-> <<>>,
             terminator |-> [kind |-> "Call", discr |-> {},
                             mutated |-> {"b"}, successors |-> <<0>>] ]
      ELSE [ statements |-> <<>>,
             terminator |-> [kind |-> "Return", discr |-> {},
                             mutated |-> {}, successors |-> <<>>] ]],
    conflicts |-> [p \in Places |-> {"a", "b"}],
    reachable_values |-> [p \in Places |-> {"a", "b"}] ]

Bodies == {AssignBody, SwitchBody, CallBody}

\* ------------------------------------------------------------ CFG
BlockIds(bd) == DOMAIN bd.blocks

NumStatements(bd, bb) == Len(bd.blocks[bb].statements)

\* The locations of block bb: its statements, then its terminator.
BlockLocations(bd, bb) == {<<bb, i>> : i \in 0..NumStatements(bd, bb)}

Locations(bd) == UNION {BlockLocations(bd, bb) : bb \in BlockIds(bd)}

RangeOf(s) == {s[i] : i \in DOMAIN s}

\* mir::traversal::reachable: preorder from START_BLOCK; the worklist is a
\* stack, and a popped block pushes its terminator's successors.
RECURSIVE Preorder(_, _, _)
Preorder(bd, worklist, order) ==
  IF worklist = <<>> THEN order
  ELSE LET bb == worklist[Len(worklist)]
           rest == SubSeq(worklist, 1, Len(worklist) - 1)
       IN IF bb \in RangeOf(order)
          THEN Preorder(bd, rest, order)
          ELSE Preorder(bd, rest \o bd.blocks[bb].terminator.successors,
                        Append(order, bb))

ReachableBlocks(bd) == Preorder(bd, <<START_BLOCK>>, <<>>)

\* The visitor calls made for one block: visit_block_start, one
\* visit_statement_after_primary_effect per statement, then
\* visit_terminator_after_primary_effect.
BlockEvents(bd, bb) ==
  << [kind |-> "block_start", block |-> bb, location |-> {}] >>
  \o [i \in 1..NumStatements(bd, bb) |->
        [kind |-> "statement", block |-> bb, location |-> {<<bb, i - 1>>}]]
  \o << [kind |-> "terminator", block |-> bb,
         location |-> {<<bb, NumStatements(bd, bb)>>}] >>

RECURSIVE EventsOf(_, _)
EventsOf(bd, order) ==
  IF order = <<>> THEN <<>>
  ELSE BlockEvents(bd, Head(order)) \o EventsOf(bd, Tail(order))

\* results.visit_reachable_with(body, &mut visitor): the calls, in order.
VisitOrder(bd) == EventsOf(bd, ReachableBlocks(bd))

\* ------------------------------------------------------------ FlowState
\* The keys of the states a query can read: the entry state and the state
\* after the primary effect of each location.
States(bd) == {EntryState} \cup Locations(bd)

ReachableLocations(bd) ==
  UNION {BlockLocations(bd, bb) : bb \in RangeOf(ReachableBlocks(bd))}

\* A non-empty row: a set of locations the analysis has visited.
NonEmptyRows(bd) == (SUBSET ReachableLocations(bd)) \ {{}}

\* The rows a FlowState can hold: at entry nothing but the arguments has
\* been written; after a location any place may have been.
Slots(bd) == ({EntryState} \X bd.args) \cup (Locations(bd) \X Places)

\* The FlowStates with at most MaxRows non-empty rows; an absent row is empty.
FlowStates(bd) ==
  UNION { { [st \in States(bd) |-> [p \in Places |->
               IF <<st, p>> \in S THEN f[<<st, p>>] ELSE {}]]
            : f \in [S -> NonEmptyRows(bd)] }
          : S \in {T \in SUBSET Slots(bd) : Cardinality(T) <= MaxRows} }

\* state.row_set(place)
row_set(state, place) == state[place]

\* results.state_at(location)
state_at(fl, location) == fl[location]

\* ------------------------------------------------------------ targets
TargetPool(bd) == Places \X Locations(bd)

SeqsUpTo(S, n) == UNION {[1..k -> S] : k \in 1..n}

TargetLists(bd) == SeqsUpTo(TargetPool(bd), MaxTargets)

\* ------------------------------------------------------------ compute_dependencies, before the traversal
\* expanded_targets: the place of each target replaced by its reachable
\* values, the location kept.
RECURSIVE ExpandedTargets(_, _)
ExpandedTargets(bd, tgts) ==
  IF tgts = <<>> THEN <<>>
  ELSE << <<bd.reachable_values[Head(tgts)[1]], Head(tgts)[2]>> >>
       \o ExpandedTargets(bd, Tail(tgts))

Indices(set) == SelectSeq(PlaceOrder, LAMBDA p : p \in set)

\* The loop of get_deps: the rows of the expanded places, in index order,
\* united into locations.
RECURSIVE UnionRows(_, _, _)
UnionRows(locations, state, indices) ==
  IF indices = <<>> THEN locations
  ELSE UnionRows(locations \cup row_set(state, Head(indices)), state,
                 Tail(indices))

\* get_deps: the rows are read from the state at the target's location.
get_deps(fl, expanded) ==
  UnionRows({}, state_at(fl, expanded[2]), Indices(expanded[1]))

RECURSIVE MapGetDeps(_, _)
MapGetDeps(fl, expanded_targets) ==
  IF expanded_targets = <<>> THEN <<>>
  ELSE << get_deps(fl, Head(expanded_targets)) >>
       \o MapGetDeps(fl, Tail(expanded_targets))

\* target_deps
TargetDeps(bd, fl, tgts) == MapGetDeps(fl, ExpandedTargets(bd, tgts))

SeedPlacesDropped(target_places) == {}

\* places.union(target_places), places being a new place set.
SeedPlaces(target_places) == {} \cup target_places

RECURSIVE SeedOutputs(_)
SeedOutputs(expanded_targets) ==
  IF expanded_targets = <<>> THEN <<>>
  ELSE << <<{}, SeedPlaces(Head(expanded_targets)[1])>> >>
       \o SeedOutputs(Tail(expanded_targets))

\* outputs: one (empty LocationSet, empty PlaceSet) per target, then each
\* PlaceSet united with the target's expanded places.
InitialOutputs(bd, tgts) == SeedOutputs(ExpandedTargets(bd, tgts))

\* ------------------------------------------------------------ DepVisitor::visit
\* Both as the conjunction of the two tests.
MatchesBothAsAnd(dir, loc_deps, target_locs) ==
  CASE dir = "Forward" -> target_locs \subseteq loc_deps
    [] dir = "Backward" -> loc_deps \subseteq target_locs
    [] dir = "Both" -> /\ target_locs \subseteq loc_deps
                       /\ loc_deps \subseteq target_locs

\* Backward tested as Forward is.
MatchesBackwardAsForward(dir, loc_deps, target_locs) ==
  CASE dir = "Forward" -> target_locs \subseteq loc_deps
    [] dir = "Backward" -> target_locs \subseteq loc_deps
    [] dir = "Both" -> \/ target_locs \subseteq loc_deps
                       \/ loc_deps \subseteq target_locs

Matches(dir, loc_deps, target_locs) ==
  CASE dir = "Forward" -> target_locs \subseteq loc_deps
    [] dir = "Backward" -> loc_deps \subseteq target_locs
    [] dir = "Both" -> \/ target_locs \subseteq loc_deps
                       \/ loc_deps \subseteq target_locs

\* The switch exception left out.
AddedLocationsNoSwitch(opt_location, loc_deps, target_locs, is_switch) ==
  {location \in opt_location : location \in loc_deps}

\* The visited location added on every match.
AddedLocationsAlways(opt_location, loc_deps, target_locs, is_switch) ==
  opt_location

\* The point a matching candidate adds: the visited location, when the
\* candidate's row holds it or the visit is a switch and the target's
\* dependencies hold it.
AddedLocations(opt_location, loc_deps, target_locs, is_switch) ==
  {location \in opt_location :
     location \in loc_deps \/ (is_switch /\ location \in target_locs)}

\* Empty rows not filtered out.
VisitPlaceNoFilter(out, place, state, opt_location, target_locs, is_switch, dir) ==
  LET loc_deps == row_set(state, place)
  IN IF Matches(dir, loc_deps, target_locs)
     THEN << out[1] \cup AddedLocations(opt_location, loc_deps, target_locs,
                                        is_switch),
             out[2] \cup {place} >>
     ELSE out

\* The locations assigned, not inserted.
VisitPlaceOverwrite(out, place, state, opt_location, target_locs, is_switch, dir) ==
  LET loc_deps == row_set(state, place)
  IN IF loc_deps = {} THEN out
     ELSE IF Matches(dir, loc_deps, target_locs)
          THEN << AddedLocations(opt_location, loc_deps, target_locs,
                                 is_switch),
                  out[2] \cup {place} >>
          ELSE out

\* The body of the inner loop for one candidate place.
VisitPlace(out, place, state, opt_location, target_locs, is_switch, dir) ==
  LET loc_deps == row_set(state, place)
  IN IF loc_deps = {} THEN out
     ELSE IF Matches(dir, loc_deps, target_locs)
          THEN << out[1] \cup AddedLocations(opt_location, loc_deps,
                                             target_locs, is_switch),
                  out[2] \cup {place} >>
          ELSE out

\* The inner loop: the candidates of to_check in index order.
RECURSIVE VisitPlaces(_, _, _, _, _, _, _)
VisitPlaces(out, indices, state, opt_location, target_locs, is_switch, dir) ==
  IF indices = <<>> THEN out
  ELSE VisitPlaces(
         VisitPlace(out, Head(indices), state, opt_location, target_locs,
                    is_switch, dir),
         Tail(indices), state, opt_location, target_locs, is_switch, dir)

\* The outer loop: target_deps zipped with outputs; the zip ends with the
\* shorter of the two, and the outputs past it are left as they are.
RECURSIVE VisitZip(_, _, _, _, _, _, _)
VisitZip(tdeps, outs, dir, state, opt_location, to_check, is_switch) ==
  IF tdeps = <<>> \/ outs = <<>> THEN outs
  ELSE << VisitPlaces(Head(outs), Indices(to_check), state, opt_location,
                      Head(tdeps), is_switch, dir) >>
       \o VisitZip(Tail(tdeps), Tail(outs), dir, state, opt_location,
                   to_check, is_switch)

\* Every output tested against the first target's dependencies.
VisitFirstDeps(outs, tdeps, dir, state, opt_location, to_check, is_switch) ==
  VisitZip([i \in DOMAIN tdeps |-> tdeps[1]], outs, dir, state, opt_location,
           to_check, is_switch)

\* One accumulator shared by all targets: each output receives what any
\* target's update adds.
VisitShared(outs, tdeps, dir, state, opt_location, to_check, is_switch) ==
  LET each == VisitZip(tdeps, outs, dir, state, opt_location, to_check,
                       is_switch)
  IN [i \in DOMAIN outs |->
        << UNION {each[j][1] : j \in DOMAIN outs},
           UNION {each[j][2] : j \in DOMAIN outs} >>]

\* DepVisitor::visit
Visit(outs, tdeps, dir, state, opt_location, to_check, is_switch) ==
  VisitZip(tdeps, outs, dir, state, opt_location, to_check, is_switch)

\* ------------------------------------------------------------ candidate sets
\* place_domain.all_args(body)
AllArgs(bd) == bd.args

\* The union of aliases.conflicts(mutated) over the places a statement or
\* terminator mutates.
ConflictsOfMutated(bd, mutated) == UNION {bd.conflicts[m] : m \in mutated}

\* PlaceDomain::as_set
AsSet == Places

\* ------------------------------------------------------------ the ResultsVisitor callbacks
\* visit_block_start: only the start block is looked at, with the routine's
\* arguments as candidates and no location.
VisitBlockStart(bd, fl, tdeps, dir, outs, block) ==
  IF block = START_BLOCK
  THEN Visit(outs, tdeps, dir, fl[EntryState], {}, AllArgs(bd), FALSE)
  ELSE outs

\* visit_statement_after_primary_effect: the candidates are the conflicts of
\* what the statement mutates.
VisitStatement(bd, fl, tdeps, dir, outs, location) ==
  LET statement == bd.blocks[location[1]].statements[location[2] + 1]
      to_check == ConflictsOfMutated(bd, statement.mutated)
  IN Visit(outs, tdeps, dir, state_at(fl, location), {location}, to_check,
           FALSE)

\* visit_terminator_after_primary_effect: a SwitchInt checks every place,
\* with is_switch set; any other terminator is handled as a statement is.
VisitTerminator(bd, fl, tdeps, dir, outs, location) ==
  LET terminator == bd.blocks[location[1]].terminator
  IN IF terminator.kind = "SwitchInt"
     THEN Visit(outs, tdeps, dir, state_at(fl, location), {location}, AsSet,
                TRUE)
     ELSE Visit(outs, tdeps, dir, state_at(fl, location), {location},
                ConflictsOfMutated(bd, terminator.mutated), FALSE)

\* The outputs after the visitor has handled one call of the traversal.
AfterEvent(bd, fl, tdeps, dir, outs, ev) ==
  CASE ev.kind = "block_start" ->
         VisitBlockStart(bd, fl, tdeps, dir, outs, ev.block)
    [] ev.kind = "statement" ->
         VisitStatement(bd, fl, tdeps, dir, outs,
                        CHOOSE l \in ev.location : TRUE)
    [] ev.kind = "terminator" ->
         VisitTerminator(bd, fl, tdeps, dir, outs,
                         CHOOSE l \in ev.location : TRUE)

\* The outputs after the calls of events, in that order.
RECURSIVE RunEvents(_, _, _, _, _, _)
RunEvents(bd, fl, tdeps, dir, outs, events) ==
  IF events = <<>> THEN outs
  ELSE RunEvents(bd, fl, tdeps, dir,
                 AfterEvent(bd, fl, tdeps, dir, outs, Head(events)),
                 Tail(events))

\* compute_dependencies(results, targets, direction) as a function.
ComputeDependencies(bd, fl, tgts, dir) ==
  RunEvents(bd, fl, TargetDeps(bd, fl, tgts), dir, InitialOutputs(bd, tgts),
            VisitOrder(bd))

\* ------------------------------------------------------------ the query as a state machine
\* The state once compute_dependencies has built its DepVisitor.
InitWith(bodies) ==
  /\ body \in bodies
  /\ flow \in FlowStates(body)
  /\ targets \in TargetLists(body)
  /\ direction \in Directions
  /\ target_deps = TargetDeps(body, flow, targets)
  /\ outputs = InitialOutputs(body, targets)
  /\ todo = VisitOrder(body)
  /\ pc = "visit"

Init == InitWith(Bodies)

\* The pending calls without the k-th.
Without(events, k) ==
  SubSeq(events, 1, k - 1) \o SubSeq(events, k + 1, Len(events))

\* The k-th pending call of the traversal is made; the traversal itself
\* always makes the first.
visit_block_start(k) ==
  /\ pc = "visit"
  /\ k \in DOMAIN todo
  /\ todo[k].kind = "block_start"
  /\ outputs' = VisitBlockStart(body, flow, target_deps, direction, outputs,
                                todo[k].block)
  /\ todo' = Without(todo, k)
  /\ UNCHANGED <<body, flow, targets, direction, target_deps, pc>>

visit_statement_after_primary_effect(k) ==
  /\ pc = "visit"
  /\ k \in DOMAIN todo
  /\ todo[k].kind = "statement"
  /\ \E location \in todo[k].location :
       outputs' = VisitStatement(body, flow, target_deps, direction, outputs,
                                 location)
  /\ todo' = Without(todo, k)
  /\ UNCHANGED <<body, flow, targets, direction, target_deps, pc>>

visit_terminator_after_primary_effect(k) ==
  /\ pc = "visit"
  /\ k \in DOMAIN todo
  /\ todo[k].kind = "terminator"
  /\ \E location \in todo[k].location :
       outputs' = VisitTerminator(body, flow, target_deps, direction, outputs,
                                  location)
  /\ todo' = Without(todo, k)
  /\ UNCHANGED <<body, flow, targets, direction, target_deps, pc>>

\* compute_dependencies returns visitor.outputs.
Return ==
  /\ pc = "visit"
  /\ todo = <<>>
  /\ pc' = "done"
  /\ UNCHANGED <<body, flow, targets, direction, target_deps, outputs, todo>>

Next ==
  \/ visit_block_start(1)
  \/ visit_statement_after_primary_effect(1)
  \/ visit_terminator_after_primary_effect(1)
  \/ Return

Spec == Init /\ [][Next]_vars

\* The same query with the reachable points visited in any order.
NextAnyOrder ==
  \/ \E k \in DOMAIN todo : visit_block_start(k)
  \/ \E k \in DOMAIN todo : visit_statement_after_primary_effect(k)
  \/ \E k \in DOMAIN todo : visit_terminator_after_primary_effect(k)
  \/ Return

SpecAnyOrder == Init /\ [][NextAnyOrder]_vars

\* The same query against an alias model that leaves a place out of its own
\* reachable values, or out of its own conflicts.
BrokenReachableBody ==
  [AssignBody EXCEPT !.reachable_values =
     [p \in Places |-> IF p = "b" THEN {"a"} ELSE {p}]]

BrokenConflictsBody ==
  [AssignBody EXCEPT !.conflicts =
     [p \in Places |-> IF p = "b" THEN {"a"} ELSE {p}]]

BrokenBodies == {BrokenReachableBody, BrokenConflictsBody}

InitBroken == InitWith(BrokenBodies)

SpecBroken == InitBroken /\ [][Next]_vars

\* ------------------------------------------------------------ what the traversal has done so far
\* The calls already made.
VisitedEvents == RangeOf(VisitOrder(body)) \ RangeOf(todo)

\* The seed of target i: the reachable values of its place.
Seed(i) == body.reachable_values[targets[i][1]]

\* ------------------------------------------------------------ C1
\* C1 (self-inclusion): in every state of the traversal, for every target
\* and every direction, the target's output place set contains every
\* reachable value of the target's place.
SelfInclusion ==
  /\ DOMAIN outputs = DOMAIN targets
  /\ \A i \in DOMAIN targets : Seed(i) \subseteq outputs[i][2]

\* The query has returned an output that grew beyond its seed, with points.
SelfInclusionWitness ==
  /\ pc = "done"
  /\ \E i \in DOMAIN targets :
       /\ Seed(i) \subseteq outputs[i][2]
       /\ outputs[i][2] # Seed(i)
       /\ outputs[i][1] # {}

\* ------------------------------------------------------------ C2
\* big holds, output by output, the points and the places of small.
Dominates(big, small) ==
  /\ Len(big) = Len(small)
  /\ \A i \in DOMAIN big :
       /\ small[i][1] \subseteq big[i][1]
       /\ small[i][2] \subseteq big[i][2]

\* C2 (Both dominates): the outputs a query with Direction = Both returns
\* contain, target by target, the points and the places that the Forward
\* query and the Backward query return on the same input.
BothDominates ==
  (pc = "done" /\ direction = "Both") =>
    /\ Dominates(outputs, ComputeDependencies(body, flow, targets, "Forward"))
    /\ Dominates(outputs, ComputeDependencies(body, flow, targets, "Backward"))

\* A Both query has returned strictly more than Forward for one target and
\* strictly more than Backward for one target.
BothDominatesWitness ==
  /\ pc = "done"
  /\ direction = "Both"
  /\ \E i \in DOMAIN targets :
       ComputeDependencies(body, flow, targets, "Forward")[i] # outputs[i]
  /\ \E i \in DOMAIN targets :
       ComputeDependencies(body, flow, targets, "Backward")[i] # outputs[i]

\* ------------------------------------------------------------ C3
\* C3 (alignment and independence): there are always as many outputs as
\* targets, and the i-th output returned is the one output of the query
\* made with targets[i] alone.
PositionalIndependence ==
  /\ Len(outputs) = Len(targets)
  /\ pc = "done" =>
       \A i \in DOMAIN targets :
         outputs[i] =
           ComputeDependencies(body, flow, <<targets[i]>>, direction)[1]

\* A query with two targets has returned outputs that differ, each with
\* points.
PositionalIndependenceWitness ==
  /\ pc = "done"
  /\ Len(targets) = 2
  /\ outputs[1] # outputs[2]
  /\ outputs[1][1] # {}
  /\ outputs[2][1] # {}
  /\ outputs[1][2] # Seed(1)

\* ------------------------------------------------------------ C4
\* The scenario: fn(a) { b = a; return b }, target (b, after P1), Backward,
\* the row of b after P1 is {P1}, the row of a at entry is empty, and the
\* query has returned.
P1 == <<0, 0>>

BackwardScenario ==
  /\ pc = "done"
  /\ body = AssignBody
  /\ targets = << <<"b", P1>> >>
  /\ direction = "Backward"
  /\ row_set(state_at(flow, P1), "b") = {P1}
  /\ row_set(flow[EntryState], "a") = {}

\* C4 as stated: the scenario returns points {P1} and places {a, b}.
BackwardScenarioOriginal ==
  BackwardScenario => outputs = << <<{P1}, {"a", "b"}>> >>

\* C4 (Backward scenario), amended: the scenario returns points {P1} and
\* places {b}; a, whose row at entry is empty, is not a candidate of the
\* matching test and is not added.
BackwardScenarioAmended ==
  BackwardScenario => outputs = << <<{P1}, {"b"}>> >>

BackwardScenarioWitness ==
  /\ BackwardScenario
  /\ AllArgs(body) = {"a"}
  /\ Matches(direction, row_set(flow[EntryState], "a"), target_deps[1])

\* ------------------------------------------------------------ C5
\* The reachable locations that hold a SwitchInt terminator.
SwitchLocations ==
  {l \in ReachableLocations(body) :
     /\ l[2] = NumStatements(body, l[1])
     /\ body.blocks[l[1]].terminator.kind = "SwitchInt"}

\* Target i lies in another block the switch at sw branches to.
AfterBranch(sw, i) ==
  /\ targets[i][2][1] # sw[1]
  /\ targets[i][2][1] \in RangeOf(body.blocks[sw[1]].terminator.successors)

\* The row of the scrutinee of the switch at sw, after the switch.
ScrutineeRow(sw) ==
  UNION {row_set(state_at(flow, sw), d) :
           d \in body.blocks[sw[1]].terminator.discr}

\* Some place has, after location l, a non-empty row that matches target i.
SomeRowMatches(l, i) ==
  \E place \in Places :
    /\ row_set(state_at(flow, l), place) # {}
    /\ Matches(direction, row_set(state_at(flow, l), place), target_deps[i])

\* C5 as stated: a point P0 in the row of a visited switch's scrutinee and
\* in the dependencies of a target after the branch is in that target's
\* returned points.
SwitchScenarioOriginal ==
  pc = "done" =>
    \A sw \in SwitchLocations : \A i \in DOMAIN targets :
      \A P0 \in ScrutineeRow(sw) :
        (AfterBranch(sw, i) /\ P0 \in target_deps[i]) => P0 \in outputs[i][1]

\* C5 (switch scenario), amended: when P0 is the point of a visited switch,
\* P0 is in the dependencies of a target after the branch, and some place
\* has a non-empty row after P0 that matches the target under the query's
\* direction, then P0 is in that target's returned points.
SwitchScenarioAmended ==
  pc = "done" =>
    \A P0 \in SwitchLocations : \A i \in DOMAIN targets :
      (AfterBranch(P0, i) /\ P0 \in target_deps[i] /\ SomeRowMatches(P0, i))
        => P0 \in outputs[i][1]

\* The switch point is returned for a target after the branch although no
\* row after the switch holds it: only the is_switch test can have added it.
SwitchScenarioWitness ==
  /\ pc = "done"
  /\ \E P0 \in SwitchLocations : \E i \in DOMAIN targets :
       /\ AfterBranch(P0, i)
       /\ P0 \in target_deps[i]
       /\ P0 \in outputs[i][1]
       /\ \A place \in Places : P0 \notin row_set(state_at(flow, P0), place)

\* ------------------------------------------------------------ C6
\* The candidates of a call of the traversal, and the state it is given.
CandidatesOf(ev) ==
  CASE ev.kind = "block_start" ->
         IF ev.block = START_BLOCK THEN body.args ELSE {}
    [] ev.kind = "statement" ->
         UNION {body.conflicts[m] :
                  m \in UNION {body.blocks[l[1]].statements[l[2] + 1].mutated :
                                 l \in ev.location}}
    [] ev.kind = "terminator" ->
         IF body.blocks[ev.block].terminator.kind = "SwitchInt" THEN Places
         ELSE UNION {body.conflicts[m] :
                       m \in body.blocks[ev.block].terminator.mutated}

StateOf(ev) ==
  IF ev.kind = "block_start" THEN flow[EntryState]
  ELSE flow[CHOOSE l \in ev.location : TRUE]

\* The candidates of ev whose row is not empty.
LiveCandidates(ev) == {place \in CandidatesOf(ev) : StateOf(ev)[place] # {}}

\* Every row of target i's expanded places is absent at the target's point.
RowsAbsent(i) ==
  \A place \in Seed(i) : row_set(state_at(flow, targets[i][2]), place) = {}

\* Target i's point is in a block the traversal does not reach.
Unreachable(i) == targets[i][2] \notin ReachableLocations(body)

\* C6 as stated, for the targets at reachable points: a target whose rows
\* are all absent has no dependencies and the query returns its seed and no
\* point, whatever the direction.
IsolatedOriginal ==
  pc = "done" =>
    \A i \in DOMAIN targets :
      (RowsAbsent(i) /\ ~Unreachable(i)) =>
        /\ target_deps[i] = {}
        /\ outputs[i] = <<{}, Seed(i)>>

\* C6 (isolated target), amended: a target whose rows are all absent has no
\* dependencies and the query returns; with Direction = Backward it returns
\* the target's seed and no point; with Forward or Both every candidate
\* with a non-empty row matches, so it returns the seed with all of those
\* candidates, and every visited point that is in such a candidate's row.
IsolatedAmended ==
  pc = "done" =>
    \A i \in DOMAIN targets :
      RowsAbsent(i) =>
        /\ target_deps[i] = {}
        /\ direction = "Backward" => outputs[i] = <<{}, Seed(i)>>
        /\ direction # "Backward" =>
             /\ outputs[i][2] =
                  Seed(i) \cup UNION {LiveCandidates(ev) : ev \in VisitedEvents}
             /\ outputs[i][1] =
                  UNION {{l \in ev.location :
                            \E place \in LiveCandidates(ev) :
                              l \in StateOf(ev)[place]} : ev \in VisitedEvents}

\* A Backward query has returned for a target without dependencies, having
\* compared it with a candidate outside its seed whose row was not empty.
IsolatedWitness ==
  /\ pc = "done"
  /\ direction = "Backward"
  /\ \E i \in DOMAIN targets :
       /\ RowsAbsent(i)
       /\ ~Unreachable(i)
       /\ \E ev \in VisitedEvents : LiveCandidates(ev) \ Seed(i) # {}

\* ------------------------------------------------------------ C7
\* The index of target j once target i is taken out of the list.
IndexWithout(i, j) == IF j < i THEN j ELSE j - 1

\* C7 as stated: the query returns, and the output of a target at an
\* unreachable point is empty: no point and no place.
MalformedOriginal ==
  pc = "done" =>
    \A i \in DOMAIN targets : Unreachable(i) => outputs[i] = <<{}, {}>>

\* C7 (malformed targets), amended to the unreachable point: the query
\* returns, the output of a target at an unreachable point is not empty, it
\* holds the target's seed, and every other target's output is what the
\* query returns without that target.
MalformedAmended ==
  pc = "done" =>
    \A i \in DOMAIN targets :
      Unreachable(i) =>
        /\ outputs[i][2] # {}
        /\ Seed(i) \subseteq outputs[i][2]
        /\ \A j \in DOMAIN targets \ {i} :
             outputs[j] =
               ComputeDependencies(body, flow, Without(targets, i),
                                   direction)[IndexWithout(i, j)]

\* A query has returned for a target at an unreachable point and another
\* target at a reachable one, whose output has grown.
MalformedWitness ==
  /\ pc = "done"
  /\ Len(targets) = 2
  /\ Unreachable(1)
  /\ ~Unreachable(2)
  /\ target_deps[1] # target_deps[2]
  /\ outputs[2][1] # {}
  /\ outputs[1][2] # {}

\* ------------------------------------------------------------ C8
\* The alias model has answered the query with a set that leaves out the
\* place asked about: the reachable values of a target's place, or the
\* conflicts of a place mutated at a visited point.
BrokenResponse ==
  \/ \E i \in DOMAIN targets :
       targets[i][1] \notin body.reachable_values[targets[i][1]]
  \/ \E ev \in VisitedEvents : \E l \in ev.location :
       \E m \in IF ev.kind = "statement"
                THEN body.blocks[l[1]].statements[l[2] + 1].mutated
                ELSE body.blocks[l[1]].terminator.mutated :
         m \notin body.conflicts[m]

\* C8 as stated: a query that got such a response never returns an output.
BrokenContractAborts == BrokenResponse => pc # "done"

\* ------------------------------------------------------------ C9
\* The visit at location l adds l for target i: some candidate of the visit
\* has a non-empty row that matches, and the row holds l or the visit is a
\* switch visit and the target's dependencies hold l.
PointCondition(ev, l, i) ==
  \E place \in CandidatesOf(ev) :
    LET loc_deps == StateOf(ev)[place]
    IN /\ loc_deps # {}
       /\ Matches(direction, loc_deps, target_deps[i])
       /\ \/ l \in loc_deps
          \/ /\ ev.kind = "terminator"
             /\ body.blocks[ev.block].terminator.kind = "SwitchInt"
             /\ l \in target_deps[i]

\* C9 (point inclusion): after every call, each output's points are exactly
\* the locations of the visits made so far that satisfy the condition; the
\* entry visit, which has no location, contributes none.
PointInclusionRule ==
  \A i \in DOMAIN targets :
    outputs[i][1] =
      UNION {{l \in ev.location : PointCondition(ev, l, i)} :
               ev \in VisitedEvents}

\* A finished query in which a visit added its point for one target and,
\* for another, a visit matched a candidate without adding its point.
PointInclusionWitness ==
  /\ pc = "done"
  /\ \E i \in DOMAIN targets : outputs[i][1] # {}
  /\ \E j \in DOMAIN targets :
       \E ev \in VisitedEvents : \E l \in ev.location :
         /\ l \notin outputs[j][1]
         /\ \E place \in LiveCandidates(ev) :
              Matches(direction, StateOf(ev)[place], target_deps[j])

\* ------------------------------------------------------------ C10
\* C10 (monotone, order-independent): whatever the order of the visits, no
\* step takes a point or a place out of an output, and the outputs returned
\* are those of the traversal in its own order.
MonotoneOrderIndependent ==
  [][ /\ \A i \in DOMAIN outputs :
           /\ outputs[i][1] \subseteq outputs'[i][1]
           /\ outputs[i][2] \subseteq outputs'[i][2]
      /\ pc' = "done" =>
           outputs' = ComputeDependencies(body, flow, targets, direction) ]_vars

\* Visits made out of order have added points: the first call is still
\* pending and at least two later ones are made.
MonotoneOrderIndependentWitness ==
  /\ pc = "visit"
  /\ todo # <<>>
  /\ todo[1] = VisitOrder(body)[1]
  /\ Len(todo) < Len(VisitOrder(body)) - 1
  /\ \E i \in DOMAIN outputs : outputs[i][1] # {}

====
